---- MODULE Spec2Model ----
(***************************************************************************)
(* Model of package pie (src/pie.go): launching a plugin process over its  *)
(* stdin/stdout pipes (start, makeCommand), the channel that couples the   *)
(* two pipes and the process handle (ioPipe) with its Close and closeProc, *)
(* and the plain stream pair rwCloser with its Close.                      *)
(*                                                                         *)
(* The host side is one caller that serialises its Close calls; every      *)
(* closeProc starts one goroutine that calls Wait and sends the result on  *)
(* a one-slot channel.  The child process and the timer are environment.   *)
(***************************************************************************)
EXTENDS Naturals, Sequences, FiniteSets

(* Number of Close calls made in sequence on the channel start returned.   *)
MaxCloses == 2

(* Number of Close calls made on a plain rwCloser.                         *)
MaxRwCloses == 2

Calls == 1..MaxCloses

(* error values; "nil" is Go's nil error *)
nil == "nil"
errProcStopTimeout == "errProcStopTimeout"
errKillWrapped == "error killing process after timeout"

(* the two values an osProcess handle takes: a nil *os.Process, or the     *)
(* handle of the child that cmd.Start launched                            *)
nilProc == "nilProc"
child == "child"

NoChannel == [ReadCloser |-> "none", WriteCloser |-> "none", proc |-> "none"]

VARIABLES
  role,        \* the program using the package: "host" or "plugin"
  phase,       \* "new" | "open" (start succeeded) | "failed"
  cmdProcess,  \* cmd.Process: nilProc until cmd.Start succeeds
  pipes,       \* state of the pipes StdinPipe / StdoutPipe returned
  iop,         \* the value start returned (NoChannel when nil)
  startErr,    \* the error start returned
  startIn,     \* what StdinPipe, StdoutPipe and Start were set to return
  procState,   \* the child: "none" | "running" | "exited" | "killed"
  cpc,         \* position of the caller inside Close / closeProc
  cur,         \* number of the Close call in progress (or last made); the
               \* variables marked "this call" describe that call
  err,         \* Close's local err
  readErr,     \* this call: what ReadCloser.Close returned
  writeErr,    \* this call: what WriteCloser.Close returned
  waiter,      \* per call: position of the goroutine closeProc started
  waitVal,     \* per call: the error Wait returned to the goroutine
  result,      \* per call: contents of the channel make(chan error, 1)
  timer,       \* this call: time.After(procTimeout): "off"|"armed"|"fired"
  sigRes,      \* this call: what Signal returned ("none" before it returns)
  killRes,     \* this call: what Kill returned ("none" before it returns)
  branch,      \* this call: how closeProc ended
  cpRet,       \* this call: what closeProc returned ("none" before)
  ret,         \* this call: what Close returned ("pending" before)
  log,         \* this call: the operations invoked, in order
  crashed,     \* a nil-pointer panic ended the program
  rwStreams,   \* rwCloser: state of its two streams
  rwLog,       \* rwCloser: close attempts of the last Close, in order
  rwIn,        \* rwCloser: the two stream errors of the last Close
  rwRet,       \* rwCloser: what the last Close returned
  rwCalls      \* rwCloser: number of Close calls made

host == <<phase, cmdProcess, pipes, iop, startErr, startIn>>
closer == <<cpc, cur, err, readErr, writeErr, sigRes, killRes, branch, cpRet, ret>>
tasks == <<waiter, waitVal, result, timer>>
rw == <<rwStreams, rwLog, rwIn, rwRet, rwCalls>>
vars == <<role, host, procState, closer, tasks, log, crashed, rw>>

----------------------------------------------------------------------------
(* makeCommand: exec.Command creates the Cmd; the second result is         *)
(* cmd.Process read at that moment, before any Start.                      *)
makeCommand == [cmd |-> "cmd", proc |-> cmdProcess]

(* a start whose first deferred cleanup is missing                         *)
deferCloseIn_Missing(e, p) == p

(* the deferred func() { if err != nil { in.Close() } }()                  *)
deferCloseIn(e, p) == IF e # nil THEN [p EXCEPT !.stdin = "closed"] ELSE p

(* a second deferred cleanup that closes out on every return               *)
deferCloseOut_Always(e, p) == [p EXCEPT !.stdout = "closed"]

(* the deferred func() { if err != nil { out.Close() } }()                 *)
deferCloseOut(e, p) == IF e # nil THEN [p EXCEPT !.stdout = "closed"] ELSE p

(* ioPipe{out, in, proc}                                                   *)
ioPipe(out, in, proc) == [ReadCloser |-> out, WriteCloser |-> in, proc |-> proc]

(* start(cmd, proc): inErr, outErr, stErr are what StdinPipe, StdoutPipe   *)
(* and Start return.  The result holds the returned channel and error, the *)
(* pipes as start leaves them and cmd.Process.                             *)
start(inErr, outErr, stErr, proc) ==
  LET p0 == [stdin |-> "none", stdout |-> "none"]
      p1 == [p0 EXCEPT !.stdin = "open"]
      p2 == [p1 EXCEPT !.stdout = "open"]
  IN  IF inErr # nil
        THEN [rwc |-> NoChannel, err |-> inErr, pipes |-> p0, process |-> nilProc]
      ELSE IF outErr # nil
        THEN [rwc |-> NoChannel, err |-> outErr,
              pipes |-> deferCloseIn(outErr, p1), process |-> nilProc]
      ELSE IF stErr # nil
        THEN [rwc |-> NoChannel, err |-> stErr,
              pipes |-> deferCloseIn(stErr, deferCloseOut(stErr, p2)),
              process |-> nilProc]
      ELSE [rwc |-> ioPipe("stdout", "stdin", proc), err |-> nil,
            pipes |-> deferCloseIn(nil, deferCloseOut(nil, p2)),
            process |-> child]

(* Close: if writeErr != nil { err = writeErr }                            *)
afterWriteClose(e, we) == IF we # nil THEN we ELSE e

(* a Close that keeps the first error instead of the last                  *)
CloseResult_FirstWins(e, procErr) == IF e # nil THEN e ELSE procErr

(* Close: if procErr != nil { err = procErr }; return err                  *)
CloseResult(e, procErr) == IF procErr # nil THEN procErr ELSE e

(* a Close that goes straight to closeProc when the read close failed      *)
afterReadClose_SkipWrite(e) == IF e # nil THEN "closeProc" ELSE "writeClose"

(* Close: the statement that follows ReadCloser.Close()                    *)
afterReadClose(e) == "writeClose"

(* a closeProc that ignores the error of Signal                            *)
afterSignal_Ignore(e) == "select"

(* closeProc: if err := Signal(os.Interrupt); err != nil { return err }    *)
afterSignal(e) == IF e # nil THEN "return" ELSE "select"

(* a closeProc that drops the error it received from the wait task         *)
selectResult_Drop(e) == nil

(* closeProc: case err := <-result: return err                             *)
selectResult(e) == e

(* a closeProc that reports a successful kill as success                   *)
killResult_Silent(killErr) == IF killErr # nil THEN errKillWrapped ELSE nil

(* a closeProc that reports the timeout whatever Kill returned             *)
killResult_IgnoreKillErr(killErr) == errProcStopTimeout

(* closeProc: the timeout case, after Kill returned killErr                *)
killResult(killErr) == IF killErr # nil THEN errKillWrapped ELSE errProcStopTimeout

(* a closeProc that waits for the child again after the kill               *)
afterKill_WaitAgain(killErr) == "selectWait"

(* closeProc: what follows Kill: both arms of the if return                *)
afterKill(killErr) == "return"

(* a result channel made without a buffer: a send needs the caller to be   *)
(* receiving in the select                                                 *)
canSend_Unbuffered(q) == Len(q) < 1 /\ cpc = "selectWait"

(* result <- err on make(chan error, 1): the send proceeds while the one   *)
(* slot is free                                                            *)
canSend(q) == Len(q) < 1

(* a wait task that waits again after it has sent its result               *)
afterSend_Loop == "spawned"

(* the goroutine ends after its send                                       *)
afterSend == "done"

(* an rwCloser.Close that keeps the first error                            *)
rwCloserClose_FirstWins(re, we) == IF re # nil THEN re ELSE we

(* rwCloser.Close, given what the two stream closes return                 *)
rwCloserClose(re, we) == IF we # nil THEN we ELSE re

(* the close attempts rwCloser.Close makes, given what the read close      *)
(* returned                                                                *)
rwCloserAttempts(re) == <<"ReadClose", "WriteClose">>

----------------------------------------------------------------------------
Init ==
  /\ role \in {"host", "plugin"}
  /\ phase = "new"
  /\ cmdProcess = nilProc
  /\ pipes = [stdin |-> "none", stdout |-> "none"]
  /\ iop = NoChannel
  /\ startErr = "none"
  /\ startIn = <<>>
  /\ procState = "none"
  /\ cpc = "idle"
  /\ cur = 0
  /\ err = nil
  /\ readErr = "none"
  /\ writeErr = "none"
  /\ waiter = [k \in Calls |-> "none"]
  /\ waitVal = [k \in Calls |-> "none"]
  /\ result = [k \in Calls |-> <<>>]
  /\ timer = "off"
  /\ sigRes = "none"
  /\ killRes = "none"
  /\ branch = "none"
  /\ cpRet = "none"
  /\ ret = "pending"
  /\ log = <<>>
  /\ crashed = FALSE
  /\ rwStreams = [read |-> "open", write |-> "open"]
  /\ rwLog = <<>>
  /\ rwIn = <<"none", "none">>
  /\ rwRet = "none"
  /\ rwCalls = 0

(* the launch shared by StartProvider, StartProviderCodec, StartConsumer   *)
(* and by a direct call of start                                           *)
Launch(proc) ==
  /\ \E inErr \in {nil, "errStdinPipe"}, outErr \in {nil, "errStdoutPipe"},
        stErr \in {nil, "errStart"} :
       LET r == start(inErr, outErr, stErr, proc)
       IN  /\ iop' = r.rwc
           /\ startErr' = r.err
           /\ startIn' = <<inErr, outErr, stErr>>
           /\ pipes' = r.pipes
           /\ cmdProcess' = r.process
           /\ phase' = IF r.err = nil THEN "open" ELSE "failed"
           /\ procState' = IF r.err = nil THEN "running" ELSE "none"
  /\ UNCHANGED <<role, closer, tasks, log, crashed, rw>>

(* StartProvider / StartProviderCodec / StartConsumer:                     *)
(* start(makeCommand(output, path, args))                                  *)
StartProvider ==
  /\ role = "host" /\ phase = "new" /\ ~crashed
  /\ Launch(makeCommand.proc)

(* start(cmd, proc) called with a handle that denotes the process cmd      *)
(* starts (start's parameter proc is any osProcess)                        *)
StartWithHandle ==
  /\ role = "host" /\ phase = "new" /\ ~crashed
  /\ Launch(child)

(* the child exits on its own: at end of input, on the signal, or anyhow   *)
ChildExit ==
  /\ procState = "running"
  /\ procState' = "exited"
  /\ UNCHANGED <<role, host, closer, tasks, log, crashed, rw>>

----------------------------------------------------------------------------
(* ioPipe.Close, first statement: err := iop.ReadCloser.Close()            *)
Close_ReadClose ==
  /\ phase = "open" /\ cpc = "idle" /\ ~crashed
  /\ cur < MaxCloses
  /\ \E e \in {nil, "errRead"} :
       /\ cur' = cur + 1
       /\ err' = e
       /\ readErr' = e
       /\ log' = Append(<<>>, "ReadClose")
       /\ pipes' = [pipes EXCEPT ![iop.ReadCloser] = "closed"]
       /\ cpc' = afterReadClose(e)
  /\ writeErr' = "none" /\ sigRes' = "none" /\ killRes' = "none"
  /\ branch' = "none"
  /\ cpRet' = "none" /\ ret' = "pending" /\ timer' = "off"
  /\ UNCHANGED <<role, phase, cmdProcess, iop, startErr, startIn, procState, waiter,
                 waitVal, result, crashed, rw>>

(* if writeErr := iop.WriteCloser.Close(); writeErr != nil {err = writeErr}*)
Close_WriteClose ==
  /\ cpc = "writeClose" /\ ~crashed
  /\ \E e \in {nil, "errWrite"} :
       /\ err' = afterWriteClose(err, e)
       /\ writeErr' = e
  /\ log' = Append(log, "WriteClose")
  /\ pipes' = [pipes EXCEPT ![iop.WriteCloser] = "closed"]
  /\ cpc' = "closeProc"
  /\ UNCHANGED <<role, phase, cmdProcess, iop, startErr, startIn, procState, cur, readErr,
                 sigRes, killRes, branch, cpRet, ret, tasks, crashed, rw>>

(* closeProc: result := make(chan error, 1); go func() {...}()             *)
closeProc_Go ==
  /\ cpc = "closeProc" /\ ~crashed
  /\ waiter' = [waiter EXCEPT ![cur] = "spawned"]
  /\ cpc' = "signal"
  /\ UNCHANGED <<role, host, procState, cur, err, readErr, writeErr, sigRes, killRes,
                 branch, cpRet, ret, waitVal, result, timer, log, crashed, rw>>

(* closeProc returns v: Close folds it into err and returns                *)
Return(v, how) ==
  /\ cpRet' = v
  /\ branch' = how
  /\ err' = nil
  /\ ret' = CloseResult(err, v)
  /\ cpc' = "idle"

(* closeProc: iop.proc.Signal(os.Interrupt) on the child's handle          *)
closeProc_Signal ==
  /\ cpc = "signal" /\ ~crashed /\ iop.proc = child
  /\ \E e \in {nil, "errSignal"} :
       /\ sigRes' = e
       /\ IF afterSignal(e) = "return"
            THEN Return(e, "sigfail")
            ELSE /\ cpc' = "select"
                 /\ UNCHANGED <<err, branch, cpRet, ret>>
  /\ log' = Append(log, "Signal")
  /\ UNCHANGED <<role, host, procState, cur, readErr, writeErr, killRes, tasks,
                 crashed, rw>>

(* closeProc: Signal on a nil *os.Process: the os package either returns   *)
(* an error or dereferences the nil pointer                                *)
closeProc_SignalNil ==
  /\ cpc = "signal" /\ ~crashed /\ iop.proc = nilProc
  /\ log' = Append(log, "Signal")
  /\ \/ /\ sigRes' = "errSignal"
        /\ IF afterSignal("errSignal") = "return"
             THEN Return("errSignal", "sigfail")
             ELSE /\ cpc' = "select"
                  /\ UNCHANGED <<err, branch, cpRet, ret>>
        /\ UNCHANGED crashed
     \/ /\ crashed' = TRUE
        /\ UNCHANGED <<cpc, err, sigRes, branch, cpRet, ret>>
  /\ UNCHANGED <<role, host, procState, cur, readErr, writeErr, killRes, tasks, rw>>

(* closeProc: entering the select evaluates time.After(procTimeout)        *)
closeProc_Select ==
  /\ cpc = "select" /\ ~crashed
  /\ timer' = "armed"
  /\ cpc' = "selectWait"
  /\ UNCHANGED <<role, host, procState, cur, err, readErr, writeErr, sigRes, killRes,
                 branch, cpRet, ret, waiter, waitVal, result, log, crashed, rw>>

(* select: case err := <-result: return err                                *)
closeProc_SelectResult ==
  /\ cpc = "selectWait" /\ ~crashed
  /\ result[cur] # <<>>
  /\ result' = [result EXCEPT ![cur] = Tail(@)]
  /\ Return(selectResult(Head(result[cur])), "exit")
  /\ UNCHANGED <<role, host, procState, cur, readErr, writeErr, sigRes, killRes, waiter,
                 waitVal, timer, log, crashed, rw>>

(* select: case <-time.After(procTimeout):                                 *)
closeProc_SelectTimeout ==
  /\ cpc = "selectWait" /\ ~crashed
  /\ timer = "fired"
  /\ branch' = "timeout"
  /\ cpc' = "kill"
  /\ UNCHANGED <<role, host, procState, cur, err, readErr, writeErr, sigRes, killRes, cpRet,
                 ret, tasks, log, crashed, rw>>

(* timeout case: iop.proc.Kill(), then the return                          *)
closeProc_Kill ==
  /\ cpc = "kill" /\ ~crashed
  /\ log' = Append(log, "Kill")
  /\ \E e \in {nil, "errKill"} :
       /\ killRes' = e
       /\ procState' = IF e = nil /\ procState = "running" THEN "killed"
                       ELSE procState
       /\ IF afterKill(e) = "return"
            THEN Return(killResult(e), "timeout")
            ELSE /\ cpc' = afterKill(e)
                 /\ UNCHANGED <<err, branch, cpRet, ret>>
  /\ UNCHANGED <<role, host, cur, readErr, writeErr, sigRes, tasks, crashed, rw>>

(* the timer of the select in progress fires                               *)
TimerFire ==
  /\ cpc = "selectWait" /\ ~crashed
  /\ timer = "armed"
  /\ timer' = "fired"
  /\ UNCHANGED <<role, host, procState, closer, waiter, waitVal, result, log,
                 crashed, rw>>

----------------------------------------------------------------------------
(* the goroutine of call k: it calls iop.proc.Wait() on the child's handle *)
Wait_Call(k) ==
  /\ waiter[k] = "spawned" /\ ~crashed /\ iop.proc = child
  /\ waiter' = [waiter EXCEPT ![k] = "waiting"]
  /\ log' = IF k = cur THEN Append(log, "Wait") ELSE log
  /\ UNCHANGED <<role, host, procState, closer, waitVal, result, timer, crashed, rw>>

(* Wait on a nil *os.Process: an error, or a nil dereference               *)
Wait_CallNil(k) ==
  /\ waiter[k] = "spawned" /\ ~crashed /\ iop.proc = nilProc
  /\ log' = IF k = cur THEN Append(log, "Wait") ELSE log
  /\ \/ /\ waiter' = [waiter EXCEPT ![k] = "send"]
        /\ waitVal' = [waitVal EXCEPT ![k] = "errWait"]
        /\ UNCHANGED crashed
     \/ /\ crashed' = TRUE
        /\ UNCHANGED <<waiter, waitVal>>
  /\ UNCHANGED <<role, host, procState, closer, result, timer, rw>>

(* Wait returns once the child has exited or was killed                    *)
Wait_Return(k) ==
  /\ waiter[k] = "waiting" /\ ~crashed
  /\ procState \in {"exited", "killed"}
  /\ \E e \in {nil, "errWait"} : waitVal' = [waitVal EXCEPT ![k] = e]
  /\ waiter' = [waiter EXCEPT ![k] = "send"]
  /\ UNCHANGED <<role, host, procState, closer, result, timer, log, crashed, rw>>

(* result <- err, on a channel of capacity 1                               *)
Wait_Send(k) ==
  /\ waiter[k] = "send" /\ ~crashed
  /\ canSend(result[k])
  /\ result' = [result EXCEPT ![k] = Append(@, waitVal[k])]
  /\ waiter' = [waiter EXCEPT ![k] = afterSend]
  /\ waitVal' = [waitVal EXCEPT ![k] = "none"]
  /\ UNCHANGED <<role, host, procState, closer, timer, log, crashed, rw>>

----------------------------------------------------------------------------
(* rwCloser.Close on the plugin's own stdin/stdout pair (NewProvider,      *)
(* NewConsumer, NewConsumerCodec build it)                                 *)
rwCloser_Close ==
  /\ role = "plugin"
  /\ rwCalls < MaxRwCloses
  /\ \E re \in {nil, "errRead"}, we \in {nil, "errWrite"} :
       /\ rwLog' = rwCloserAttempts(re)
       /\ rwStreams' = [read |-> "closed",
                        write |-> IF "WriteClose" \in
                                       {rwCloserAttempts(re)[i] :
                                          i \in 1..Len(rwCloserAttempts(re))}
                                  THEN "closed" ELSE rwStreams.write]
       /\ rwIn' = <<re, we>>
       /\ rwRet' = rwCloserClose(re, we)
  /\ rwCalls' = rwCalls + 1
  /\ UNCHANGED <<role, host, procState, closer, tasks, log, crashed>>

----------------------------------------------------------------------------
Next ==
  \/ StartProvider
  \/ StartWithHandle
  \/ ChildExit
  \/ Close_ReadClose
  \/ Close_WriteClose
  \/ closeProc_Go
  \/ closeProc_Signal
  \/ closeProc_SignalNil
  \/ closeProc_Select
  \/ closeProc_SelectResult
  \/ closeProc_SelectTimeout
  \/ closeProc_Kill
  \/ TimerFire
  \/ \E k \in Calls : Wait_Call(k)
  \/ \E k \in Calls : Wait_CallNil(k)
  \/ \E k \in Calls : Wait_Return(k)
  \/ \E k \in Calls : Wait_Send(k)
  \/ rwCloser_Close

Spec == Init /\ [][Next]_vars

----------------------------------------------------------------------------
(* Properties                                                              *)

Range(q) == {q[i] : i \in 1..Len(q)}

Returned == ret # "pending"

(* C1: whenever Close on the channel of a successful start has returned,   *)
(* the child is no longer running: it has exited or was killed.            *)
C1_ChildStoppedWhenCloseReturns ==
  (phase = "open" /\ Returned) => procState \in {"exited", "killed"}

(* C2: after a successful start the handle stored in the channel is the    *)
(* handle of the process that start launched.                              *)
C2_HandleIsLaunchedChild ==
  phase = "open" => (iop.proc = cmdProcess /\ iop.proc = child)

(* C3, as stated: when Signal fails, closeProc returns that error and      *)
(* neither Wait nor Kill is invoked in that call.                          *)
C3_SignalFailureNoWaitNoKill ==
  sigRes \notin {"none", nil} =>
    /\ cpRet = sigRes
    /\ "Wait" \notin Range(log)
    /\ "Kill" \notin Range(log)

(* C3, amended: when Signal fails, closeProc returns that error at once:   *)
(* it never arms the timer, never takes a branch of the select and never   *)
(* invokes Kill; the wait task had been started before Signal was called.  *)
C3_SignalFailureReturnsAtOnce ==
  sigRes \notin {"none", nil} =>
    /\ cpRet = sigRes
    /\ Returned
    /\ branch = "sigfail"
    /\ timer = "off"
    /\ "Kill" \notin Range(log)
    /\ waiter[cur] # "none"

C3_Witness ==
  /\ iop.proc = child /\ sigRes = "errSignal" /\ cpRet = "errSignal"
  /\ "Wait" \in Range(log)

(* C4: when the select finds the wait result available and the timer not   *)
(* fired, closeProc returns the error Wait produced, the timer has still   *)
(* not fired when it returns, and Kill is never invoked in that call.      *)
C4_ExitBeforeTimeout ==
  [][/\ (cpc = "selectWait" /\ result[cur] # <<>> /\ timer # "fired"
            /\ cpc' # "selectWait" /\ ~crashed')
          => /\ cpRet' = Head(result[cur])
             /\ branch' = "exit"
             /\ timer' # "fired"
             /\ ret' # "pending"
     /\ branch' = "exit" => ("Kill" \notin Range(log') /\ killRes' = "none")
    ]_vars

C4_Witness ==
  /\ branch = "exit" /\ cpRet = "errWait" /\ timer = "armed" /\ Returned
  /\ sigRes = nil

(* C5, as stated: when the select takes the timeout case, closeProc        *)
(* invokes Kill and returns errProcStopTimeout.                            *)
C5_TimeoutReturnsSentinel ==
  (branch = "timeout" /\ Returned) =>
    ("Kill" \in Range(log) /\ cpRet = errProcStopTimeout)

(* C5, amended: when the select takes the timeout case, closeProc invokes  *)
(* Kill and returns errProcStopTimeout if Kill succeeded and the           *)
(* kill-failure error if Kill failed; it never returns the error of Wait,  *)
(* also when the wait result has arrived in the meantime.                  *)
C5_TimeoutKills ==
  /\ (branch = "timeout" /\ Returned) =>
       /\ "Kill" \in Range(log)
       /\ killRes # "none"
       /\ cpRet = IF killRes = nil THEN errProcStopTimeout ELSE errKillWrapped
       /\ cpRet \notin {nil, "errWait"}
  /\ cpc = "kill" => (branch = "timeout" /\ timer = "fired" /\ sigRes = nil)

C5_Witness ==
  /\ branch = "timeout" /\ Returned /\ cpRet = errProcStopTimeout
  /\ result[cur] = <<"errWait">>

(* C6: Close returns the error of the last failing step among read close,  *)
(* write close and closeProc, and nil exactly when all three succeeded.    *)
C6_LastFailureWins ==
  Returned =>
    /\ ret = IF cpRet # nil THEN cpRet
             ELSE IF writeErr # nil THEN writeErr ELSE readErr
    /\ (ret = nil) <=> (readErr = nil /\ writeErr = nil /\ cpRet = nil)

C6_Witness ==
  /\ Returned /\ readErr = "errRead" /\ writeErr = "errWrite"
  /\ cpRet = errProcStopTimeout /\ ret = errProcStopTimeout

(* C7: rwCloser.Close attempts the read close and then the write close     *)
(* whatever the first returns, and returns the write error if there is     *)
(* one, else the read error.                                               *)
C7_RwCloserLastFailureWins ==
  rwCalls > 0 =>
    /\ rwLog = <<"ReadClose", "WriteClose">>
    /\ rwStreams = [read |-> "closed", write |-> "closed"]
    /\ rwRet = IF rwIn[2] # nil THEN rwIn[2] ELSE rwIn[1]
    /\ (rwRet = nil) <=> (rwIn[1] = nil /\ rwIn[2] = nil)

C7_Witness ==
  rwCalls > 0 /\ rwIn = <<"errRead", "errWrite">> /\ rwRet = "errWrite"

(* C8: when start fails, no acquired pipe is left open, the returned       *)
(* channel is nil and the returned error is that of the failing step.      *)
C8_FailedStartReleasesPipes ==
  phase = "failed" =>
    /\ iop = NoChannel
    /\ startErr = IF startIn[1] # nil THEN startIn[1]
                  ELSE IF startIn[2] # nil THEN startIn[2] ELSE startIn[3]
    /\ startErr # nil
    /\ pipes.stdin = IF startIn[1] # nil THEN "none" ELSE "closed"
    /\ pipes.stdout = IF startIn[1] # nil \/ startIn[2] # nil
                      THEN "none" ELSE "closed"
    /\ procState = "none"

C8_Witness ==
  /\ phase = "failed" /\ startErr = "errStdoutPipe"
  /\ pipes = [stdin |-> "closed", stdout |-> "none"]

(* C9: Close called twice in sequence neither crashes nor leaves the       *)
(* caller blocked with nothing that can release it.                        *)
C9_DoubleCloseNoCrashNoDeadlock ==
  /\ ~crashed
  /\ cpc = "selectWait" => timer \in {"armed", "fired"}

(* C10: in every Close the read close and then the write close are         *)
(* attempted before any Wait, Signal or Kill of that call, and closeProc   *)
(* runs whatever the two closes returned.                                  *)
C10_StreamsClosedBeforeShutdown ==
  /\ Len(log) >= 1 => log[1] = "ReadClose"
  /\ Len(log) >= 2 => log[2] = "WriteClose"
  /\ \A i \in 1..Len(log) : log[i] \in {"Wait", "Signal", "Kill"} => i > 2
  /\ \A k \in Calls : waiter[k] # "none" => (k <= cur /\ (k = cur => Len(log) >= 2))
  /\ Returned => (readErr # "none" /\ writeErr # "none" /\ "Signal" \in Range(log))

C10_Witness ==
  /\ Returned /\ readErr = "errRead" /\ writeErr = "errWrite"
  /\ "Signal" \in Range(log) /\ "Wait" \in Range(log)

(* position of the first x in q, 0 when there is none                      *)
IndexOf(q, x) ==
  IF x \in Range(q) THEN CHOOSE i \in 1..Len(q) :
                           q[i] = x /\ \A j \in 1..(i - 1) : q[j] # x
  ELSE 0

IsSignalOrKill(x) == x \in {"Signal", "Kill"}

IsWait(x) == x = "Wait"

(* C11: Kill is invoked only after Signal was called and returned nil and  *)
(* after the timer fired; never when Signal failed, never before Signal.   *)
C11_KillOnlyAfterSignalAndTimeout ==
  /\ "Kill" \in Range(log) =>
       /\ "Signal" \in Range(log)
       /\ IndexOf(log, "Signal") < IndexOf(log, "Kill")
       /\ sigRes = nil
       /\ timer = "fired"
  /\ cpc = "kill" => (sigRes = nil /\ timer = "fired" /\ "Signal" \in Range(log))
  /\ sigRes \notin {"none", nil} => (cpc # "kill" /\ "Kill" \notin Range(log))

C11_Witness ==
  "Kill" \in Range(log) /\ sigRes = nil /\ timer = "fired" /\ Returned

(* C12: when the timeout case is taken and Kill fails, closeProc returns   *)
(* the kill-failure error, not errProcStopTimeout and not the error of     *)
(* Wait, also when the child has exited between the timer and the Kill.    *)
C12_KillFailureReported ==
  killRes \notin {"none", nil} =>
    /\ branch = "timeout" /\ timer = "fired"
    /\ Returned
    /\ cpRet = errKillWrapped
    /\ cpRet \notin {errProcStopTimeout, nil, "errWait", killRes}
    /\ ret = cpRet

C12_Witness ==
  /\ killRes = "errKill" /\ cpRet = errKillWrapped /\ procState = "exited"
  /\ waiter[cur] = "waiting"

WaiterStep(k) ==
  Wait_Call(k) \/ Wait_CallNil(k) \/ Wait_Return(k) \/ Wait_Send(k)

(* C14: the send of a wait task never waits for a receiver: whenever a     *)
(* task holds the value Wait returned, the one slot of its channel is free *)
(* and the send can proceed; a channel never holds more than one value;    *)
(* and once the child has ended, every task that is still alive has a      *)
(* step it can take, whether or not its Close has returned.                *)
C14_WaitTaskNeverStuck ==
  \A k \in Calls :
    /\ Len(result[k]) <= 1
    /\ waiter[k] = "send" => (result[k] = <<>> /\ (~crashed => ENABLED Wait_Send(k)))
    /\ waiter[k] = "done" => waitVal[k] = "none"
    /\ (~crashed /\ waiter[k] \in {"spawned", "waiting", "send"}
          /\ procState \in {"exited", "killed"}) => ENABLED WaiterStep(k)

C14_Witness ==
  /\ Returned /\ cpc = "idle" /\ branch = "sigfail"
  /\ waiter[cur] = "done" /\ result[cur] # <<>>

(* the calls whose Wait has been invoked and has not returned              *)
WaitsInFlight == {k \in Calls : waiter[k] = "waiting"}

(* C15, as stated: Wait is invoked only by closeProc and no two Wait calls *)
(* on the handle are in flight at the same time, over any sequence of      *)
(* serialised Close calls.                                                 *)
C15_NeverTwoWaitsInFlight ==
  /\ \A k \in Calls : waiter[k] # "none" => k <= cur
  /\ Cardinality(WaitsInFlight) <= 1

(* C15, amended: Wait is invoked only by the wait task of a closeProc,     *)
(* once per call, after that call's stream closes; so the Wait calls in    *)
(* flight never outnumber the Close calls made, and with a single Close    *)
(* there is never more than one.                                           *)
C15_OneWaitPerClose ==
  /\ \A k \in Calls : waiter[k] # "none" => k <= cur
  /\ Cardinality(WaitsInFlight) <= cur
  /\ Len(SelectSeq(log, IsWait)) <= 1
  /\ "Wait" \in Range(log) =>
       (waiter[cur] # "none" /\ IndexOf(log, "WriteClose") = 2
          /\ IndexOf(log, "Wait") > 2)
  /\ (cur >= 1 /\ waiter[cur] = "waiting") => "Wait" \in Range(log)

C15_Witness ==
  /\ cur = 2 /\ waiter[1] = "waiting" /\ waiter[2] = "waiting"
  /\ iop.proc = child /\ procState = "running"

(* C16: the step that invokes Kill is the step in which closeProc and      *)
(* Close return: after Kill the call starts no wait task, takes nothing    *)
(* from the result channel and does not wait for the pending Wait, whether *)
(* the child has ended or not.                                             *)
C16_ReturnsRightAfterKill ==
  [][/\ ("Kill" \notin Range(log) /\ "Kill" \in Range(log')) =>
          /\ cpc = "kill" /\ cpc' = "idle" /\ Returned'
          /\ cpRet' \in {errProcStopTimeout, errKillWrapped}
          /\ waiter' = waiter /\ waitVal' = waitVal /\ result' = result
     /\ "Kill" \in Range(log') =>
          /\ Returned'
          /\ Len(SelectSeq(log', IsSignalOrKill)) = 2
          /\ Len(SelectSeq(log', IsWait)) <= 1
    ]_vars

C16_Witness ==
  /\ "Kill" \in Range(log) /\ Returned /\ killRes = "errKill"
  /\ procState = "running" /\ waiter[cur] = "waiting" /\ result[cur] = <<>>

(* the steps of the caller inside Close and closeProc                      *)
CloserStep ==
  \/ Close_WriteClose
  \/ closeProc_Go
  \/ closeProc_Signal
  \/ closeProc_SignalNil
  \/ closeProc_Select
  \/ closeProc_SelectResult
  \/ closeProc_SelectTimeout
  \/ closeProc_Kill

(* the caller keeps running and the timer of a select fires; nothing is    *)
(* assumed of the child or of the wait tasks                               *)
FairSpec == Spec /\ WF_vars(CloserStep) /\ WF_vars(TimerFire)

(* the program died inside the Signal call of the current Close            *)
SignalPanicked ==
  crashed /\ cpc = "signal" /\ "Signal" \in Range(log) /\ sigRes = "none"

(* C17: a caller inside Close is never left without a way on: unless the   *)
(* Signal call itself did not return, the caller or the timer of its       *)
(* select can always take a step, so Close returns.                        *)
C17_CloseNeverStuck ==
  (cpc # "idle" /\ ~SignalPanicked) => ENABLED (CloserStep \/ TimerFire)

(* what holds of the code as it is: under FairSpec a Close that has begun  *)
(* returns or the program dies of the nil handle                           *)
C17_ReturnsUnlessPanic == (cpc # "idle") ~> (cpc = "idle" \/ crashed)

(* C18: a successful start leaves both pipes open and returns a channel    *)
(* that reads from the stdout pipe and writes to the stdin pipe; the       *)
(* stdout pipe is closed only by the read close of a Close on the channel  *)
(* and the stdin pipe only by its write close.                             *)
C18_SuccessfulStartKeepsPipes ==
  phase = "open" =>
    /\ startErr = nil /\ startIn = <<nil, nil, nil>>
    /\ iop.ReadCloser = "stdout" /\ iop.WriteCloser = "stdin"
    /\ pipes.stdout = IF cur = 0 THEN "open" ELSE "closed"
    /\ pipes.stdin = IF cur = 0 \/ (cur = 1 /\ cpc = "writeClose")
                     THEN "open" ELSE "closed"

C18_Witness ==
  /\ phase = "open" /\ cur = 0
  /\ pipes = [stdin |-> "open", stdout |-> "open"]
  /\ iop.ReadCloser = "stdout" /\ iop.WriteCloser = "stdin"

====
